---- MODULE Spec2Model ----
(***************************************************************************)
(* Model of copy_skill.py: reset the destination directory ".skill" and    *)
(* copy the "scripts" and "data" subtrees of SOURCE_DIR into it.           *)
(*                                                                         *)
(* The filesystem is one namespace: a function from absolute paths         *)
(* (sequences of names) to nodes.  SOURCE_DIR is an absolute path; DEST_DIR *)
(* is relative, so it is resolved against the working directory cwd, which *)
(* is an input of the run and may lie inside the source tree.              *)
(***************************************************************************)
EXTENDS Integers, Sequences, FiniteSets, TLC

VARIABLES fs, cwd, pc, stdout, ops, err, runs, fsStart, prior, prevDest

vars == <<fs, cwd, pc, stdout, ops, err, runs, fsStart, prior, prevDest>>

(* ---------------------------- bounds ----------------------------------- *)
MaxContent == 2
MaxRuns == 2

Contents == 1..MaxContent
FileNames == {"a"}

(* ---------------------------- nodes and paths -------------------------- *)
Dir == [kind |-> "dir", data |-> 0]
File(c) == [kind |-> "file", data |-> c]

IsPrefix(p, q) == Len(p) <= Len(q) /\ SubSeq(q, 1, Len(p)) = p
Rel(root, p) == SubSeq(p, Len(root) + 1, Len(p))
Under(f, root) == {p \in DOMAIN f : IsPrefix(root, p)}
Restrict(f, D) == [p \in D |-> f[p]]
IsDir(f, p) == p \in DOMAIN f /\ f[p].kind = "dir"
IsFile(f, p) == p \in DOMAIN f /\ f[p].kind = "file"

\* the subtree rooted at root, keyed by paths relative to root
Tree(f, root) == [r \in {Rel(root, p) : p \in Under(f, root)} |-> f[root \o r]]
\* a relative tree placed at an absolute root
Mount(t, root) == [p \in {root \o r : r \in DOMAIN t} |-> t[Rel(root, p)]]

(* ---------------------------- path constants --------------------------- *)
SOURCE_DIR == <<"ui-ux-pro-max">>
DEST_DIR == cwd \o <<".skill">>

scripts_src == SOURCE_DIR \o <<"scripts">>
scripts_dest == DEST_DIR \o <<"scripts">>
data_src == SOURCE_DIR \o <<"data">>
data_dest == DEST_DIR \o <<"data">>

\* the working directories a run is started from
WorkDirs == {<<"site">>, SOURCE_DIR, SOURCE_DIR \o <<"scripts">>, SOURCE_DIR \o <<"data">>}

(* ---------------------------- initial filesystems ---------------------- *)
Flat == UNION {[N -> Contents] : N \in SUBSET FileNames}
FlatTree(g) == [r \in {<<>>} \cup {<<n>> : n \in DOMAIN g} |->
                  IF r = <<>> THEN Dir ELSE File(g[r[1]])]
Graft(t, name, sub) == t @@ Mount(sub, <<name>>)
NoTree == [r \in {} |-> Dir]
FileTree(c) == [r \in {<<>>} |-> File(c)]

\* what may sit at SOURCE_DIR/scripts or SOURCE_DIR/data: nothing, a regular
\* file, or a directory with files and at most one nested directory
DirTrees == {FlatTree(g) : g \in Flat}
              \cup {Graft(FlatTree(g), "sub", FlatTree(h)) : g \in Flat, h \in Flat}
SourceTrees == {NoTree, FileTree(1)} \cup DirTrees

\* what may sit at DEST_DIR before the run
DestDirTrees == {Graft(Graft(Graft(FlatTree(<<>>), "scripts", s), "data", d), "old", o) :
                   s \in {NoTree, FlatTree(<<>>), FlatTree([n \in {"a"} |-> 1])},
                   d \in {NoTree, FlatTree(<<>>)},
                   o \in {NoTree, FileTree(1)}}
DestTrees == {NoTree, FileTree(1)} \cup DestDirTrees

Roots(w) == [p \in {SOURCE_DIR, w} |-> Dir]

InitFs(w, s, d, t) ==
    Mount(s, SOURCE_DIR \o <<"scripts">>) @@ Mount(d, SOURCE_DIR \o <<"data">>)
      @@ Mount(t, w \o <<".skill">>) @@ Roots(w)

(* ---------------------------- shutil.rmtree ---------------------------- *)
Outcome(f, e) == [fs |-> f, err |-> e]

\* R is closed under descendants within U: rmtree removes bottom-up
DownClosed(R, U) == \A p \in R : \A q \in U : IsPrefix(p, q) => q \in R

\* variant: only regular files are unlinked, directories are left in place
RmTreeOutcomesFilesOnly(f, path) ==
    IF f[path].kind = "file"
    THEN {Outcome(f, "NotADirectoryError")}
    ELSE {Outcome(Restrict(f, {p \in DOMAIN f : ~(IsPrefix(path, p) /\ f[p].kind = "file")}), "")}

\* rmtree(path) of an existing path.  A regular file is refused; a directory
\* is removed with everything under it, or the removal stops at the first
\* error, having removed some of the entries below path.
RmTreeOutcomes(f, path) ==
    IF f[path].kind = "file"
    THEN {Outcome(f, "NotADirectoryError")}
    ELSE LET U == Under(f, path) IN
         {Outcome(Restrict(f, DOMAIN f \ U), "")}
           \cup {Outcome(Restrict(f, DOMAIN f \ R), "OSError") :
                   R \in {X \in SUBSET (U \ {path}) : DownClosed(X, U)}}

(* ---------------------------- shutil.copytree -------------------------- *)
Ancestors(p) == {SubSeq(p, 1, k) : k \in 1..(Len(p) - 1)}

\* os.makedirs(dst): dst and each missing ancestor, as new directories
MakeDirs(f, dst) == [p \in (Ancestors(dst) \cup {dst}) \ DOMAIN f |-> Dir]

\* variant: only the direct entries of src are copied, nested directories
\* are created empty
CopyTreeImageShallow(f, src, dst) ==
    Mount(Restrict(Tree(f, src), {r \in DOMAIN Tree(f, src) : Len(r) <= 1}), dst)

\* every entry below src, at the same relative path below dst, same bytes
CopyTreeImage(f, src, dst) == Mount(Tree(f, src), dst)

\* K is closed under ancestors within N: an entry is created inside a
\* directory that was created before it
UpClosed(K, N) == \A p \in K : \A q \in N : IsPrefix(q, p) => q \in K

\* dst lies below src and the entry of src leading to it is listed: the copy
\* descends into its own output and cannot complete
SelfCopy(f, src, dst) ==
    /\ IsPrefix(src, dst)
    /\ Len(dst) > Len(src)
    /\ (src \o <<dst[Len(src) + 1]>>) \in DOMAIN f

\* variant: a missing source is treated as an empty directory
CopyTreeOutcomesLenient(f, src, dst) ==
    IF src \notin DOMAIN f THEN {Outcome(f @@ MakeDirs(f, dst), "")}
    ELSE IF f[src].kind = "file" THEN {Outcome(f, "NotADirectoryError")}
    ELSE IF dst \in DOMAIN f THEN {Outcome(f, "FileExistsError")}
    ELSE {Outcome(f @@ (MakeDirs(f, dst) @@ CopyTreeImage(f, src, dst)), "")}

\* variant: the subtree is moved instead of copied
CopyTreeOutcomesMove(f, src, dst) ==
    IF src \notin DOMAIN f THEN {Outcome(f, "FileNotFoundError")}
    ELSE IF f[src].kind = "file" THEN {Outcome(f, "NotADirectoryError")}
    ELSE IF dst \in DOMAIN f THEN {Outcome(f, "FileExistsError")}
    ELSE LET g == f @@ (MakeDirs(f, dst) @@ CopyTreeImage(f, src, dst)) IN
         {Outcome(Restrict(g, DOMAIN g \ Under(f, src)), "")}

\* copytree(src, dst) with the default arguments.  The source is listed
\* first, then dst is created (it must not exist), then the entries are
\* copied; errors on single entries are collected and raised at the end, so
\* a failed copy leaves any ancestor-closed part of the copy behind.
CopyTreeOutcomes(f, src, dst) ==
    IF src \notin DOMAIN f THEN {Outcome(f, "FileNotFoundError")}
    ELSE IF f[src].kind = "file" THEN {Outcome(f, "NotADirectoryError")}
    ELSE IF dst \in DOMAIN f THEN {Outcome(f, "FileExistsError")}
    ELSE IF \E q \in Ancestors(dst) : IsFile(f, q) THEN {Outcome(f, "NotADirectoryError")}
    ELSE LET new == MakeDirs(f, dst) @@ CopyTreeImage(f, src, dst) IN
         (IF SelfCopy(f, src, dst) THEN {} ELSE {Outcome(f @@ new, "")})
           \cup {Outcome(f @@ Restrict(new, K), "Error") :
                   K \in {X \in SUBSET DOMAIN new : UpClosed(X, DOMAIN new)}}

(* ---------------------------- copy_skill ------------------------------- *)
\* variant: the existence test looks at the scripts target
DestExistsScripts(f) == scripts_dest \in DOMAIN f /\ DEST_DIR \in DOMAIN f

DestExists(f) == DEST_DIR \in DOMAIN f

\* variant: the exception is swallowed and the run goes on
AfterStepIgnore(e, next) == next

\* an exception is not caught: it ends the run
AfterStep(e, next) == IF e = "" THEN next ELSE "failed"

\* variant: the first line names the data target
ScriptsLineData == [text |-> "Copied scripts to", path |-> data_dest]

ScriptsLine == [text |-> "Copied scripts to", path |-> scripts_dest]
DataLine == [text |-> "Copied data to", path |-> data_dest]

Op(name, e) == [op |-> name, ok |-> (e = "")]

Init ==
    /\ cwd \in WorkDirs
    /\ \E s \in SourceTrees, d \in SourceTrees, t \in DestTrees :
         fs = InitFs(cwd, s, d, t)
    /\ IsDir(fs, cwd)
    /\ pc = "reset"
    /\ stdout = <<>>
    /\ ops = <<>>
    /\ err = ""
    /\ runs = 1
    /\ fsStart = fs
    /\ prior = Under(fs, DEST_DIR)
    /\ prevDest = NoTree

\* lines 10-11
Reset ==
    /\ pc = "reset"
    /\ IF DestExists(fs)
       THEN \E o \in RmTreeOutcomes(fs, DEST_DIR) :
              /\ fs' = o.fs
              /\ err' = o.err
              /\ ops' = Append(ops, Op("rmtree", o.err))
              /\ pc' = AfterStep(o.err, "copy_scripts")
       ELSE /\ pc' = "copy_scripts"
            /\ UNCHANGED <<fs, err, ops>>
    /\ prior' = prior \cap DOMAIN fs'
    /\ UNCHANGED <<cwd, stdout, runs, fsStart, prevDest>>

\* lines 14-16
CopyScripts ==
    /\ pc = "copy_scripts"
    /\ \E o \in CopyTreeOutcomes(fs, scripts_src, scripts_dest) :
         /\ fs' = o.fs
         /\ err' = o.err
         /\ ops' = Append(ops, Op("copy_scripts", o.err))
         /\ pc' = AfterStep(o.err, "print_scripts")
    /\ UNCHANGED <<cwd, stdout, runs, fsStart, prior, prevDest>>

\* line 17
PrintScripts ==
    /\ pc = "print_scripts"
    /\ stdout' = Append(stdout, ScriptsLine)
    /\ ops' = Append(ops, Op("print_scripts", ""))
    /\ pc' = "copy_data"
    /\ UNCHANGED <<fs, cwd, err, runs, fsStart, prior, prevDest>>

\* lines 20-22
CopyData ==
    /\ pc = "copy_data"
    /\ \E o \in CopyTreeOutcomes(fs, data_src, data_dest) :
         /\ fs' = o.fs
         /\ err' = o.err
         /\ ops' = Append(ops, Op("copy_data", o.err))
         /\ pc' = AfterStep(o.err, "print_data")
    /\ UNCHANGED <<cwd, stdout, runs, fsStart, prior, prevDest>>

\* line 23, then copy_skill returns
PrintData ==
    /\ pc = "print_data"
    /\ stdout' = Append(stdout, DataLine)
    /\ ops' = Append(ops, Op("print_data", ""))
    /\ pc' = "done"
    /\ UNCHANGED <<fs, cwd, err, runs, fsStart, prior, prevDest>>

\* lines 25-26: after a run that succeeded the script is run again, from the
\* same working directory, on the filesystem that run left
Rerun ==
    /\ pc = "done"
    /\ runs < MaxRuns
    /\ pc' = "reset"
    /\ stdout' = <<>>
    /\ ops' = <<>>
    /\ err' = ""
    /\ runs' = runs + 1
    /\ fsStart' = fs
    /\ prior' = Under(fs, DEST_DIR)
    /\ prevDest' = Tree(fs, DEST_DIR)
    /\ UNCHANGED <<fs, cwd>>

Next == Reset \/ CopyScripts \/ PrintScripts \/ CopyData \/ PrintData \/ Rerun

Spec == Init /\ [][Next]_vars

TypeOK ==
    /\ pc \in {"reset", "copy_scripts", "print_scripts", "copy_data", "print_data", "done", "failed"}
    /\ runs \in 1..MaxRuns
    /\ \A p \in DOMAIN fs : \A q \in Ancestors(p) : IsDir(fs, q)

(* ======================= properties ==================================== *)
Terminal == pc \in {"done", "failed"}
FailedAt == IF pc = "failed" /\ Len(ops) > 0 THEN ops[Len(ops)].op ELSE "none"
OkOps == {ops[i].op : i \in {j \in 1..Len(ops) : ops[j].ok}}

\* every regular file below src has, at the same relative path below dst,
\* a regular file with the same bytes
FilesCopied(src, dst) ==
    \A p \in Under(fs, src) :
       IsFile(fs, p) => /\ IsFile(fs, dst \o Rel(src, p))
                        /\ fs[dst \o Rel(src, p)].data = fs[p].data

DestInside(src) == IsPrefix(src, DEST_DIR)

\* C1 as stated: after a run that returned, every file under source/scripts
\* and source/data has an identical file at the same relative path under
\* destination/scripts resp. destination/data.
C1_AsStated ==
    pc = "done" =>
      FilesCopied(scripts_src, scripts_dest) /\ FilesCopied(data_src, data_dest)

\* C1 amended: the same, provided the destination directory does not lie
\* inside source/scripts or source/data.
C1_CopyIdentical ==
    (pc = "done" /\ ~DestInside(scripts_src) /\ ~DestInside(data_src)) =>
      FilesCopied(scripts_src, scripts_dest) /\ FilesCopied(data_src, data_dest)

C1_Witness ==
    /\ pc = "done"
    /\ ~DestInside(scripts_src) /\ ~DestInside(data_src)
    /\ IsFile(fs, scripts_src \o <<"sub", "a">>)
    /\ IsFile(fs, scripts_src \o <<"a">>)
    /\ IsFile(fs, data_src \o <<"sub", "a">>)

\* the node at p below DEST_DIR is the copy of the source node at the same
\* relative path
FromSource(p, src, dst) ==
    /\ IsPrefix(dst, p)
    /\ (src \o Rel(dst, p)) \in DOMAIN fsStart
    /\ fs[p] = fsStart[src \o Rel(dst, p)]

\* C2: after a successful run on a destination that existed before, nothing
\* of the prior contents remains and the destination holds only the copied
\* scripts and data trees.
C2_OnlyFreshCopies ==
    (pc = "done" /\ DEST_DIR \in DOMAIN fsStart) =>
      /\ prior = {}
      /\ \A p \in Under(fs, DEST_DIR) :
            \/ p = DEST_DIR
            \/ FromSource(p, scripts_src, scripts_dest)
            \/ FromSource(p, data_src, data_dest)

C2_Witness ==
    /\ pc = "done"
    /\ IsFile(fsStart, DEST_DIR \o <<"old">>)
    /\ IsFile(fsStart, DEST_DIR \o <<"scripts", "a">>)
    /\ IsDir(fsStart, DEST_DIR \o <<"data">>)

\* C3 as stated: when source/scripts does not exist the run ends failed at
\* the scripts copy, the destination has no data subtree and nothing was
\* printed.
C3_AsStated ==
    (Terminal /\ scripts_src \notin DOMAIN fsStart) =>
      /\ pc = "failed"
      /\ FailedAt = "copy_scripts"
      /\ data_dest \notin DOMAIN fs
      /\ stdout = <<>>

\* C3 amended: when source/scripts does not exist and the reset step does not
\* fail, the run fails at the scripts copy: the copy of data is never
\* started, nothing is printed, and the failed state has no data subtree.
C3_FailsAtScripts ==
    (scripts_src \notin DOMAIN fsStart) =>
      /\ pc \in {"reset", "copy_scripts", "failed"}
      /\ stdout = <<>>
      /\ \A i \in 1..Len(ops) : ops[i].op \in {"rmtree", "copy_scripts"}
      /\ (pc = "failed" /\ FailedAt # "rmtree") =>
            /\ FailedAt = "copy_scripts"
            /\ err = "FileNotFoundError"
            /\ data_dest \notin DOMAIN fs

C3_Witness ==
    /\ pc = "failed"
    /\ FailedAt = "copy_scripts"
    /\ scripts_src \notin DOMAIN fsStart
    /\ IsDir(fsStart, data_src)
    /\ IsDir(fsStart, data_dest)

CompleteScripts == Tree(fs, scripts_dest) = Tree(fs, scripts_src)

\* C4 as stated: when source/scripts exists and source/data does not, the run
\* ends failed at the data copy with a complete copy of scripts, no data
\* subtree and exactly one printed line.
C4_AsStated ==
    (Terminal /\ scripts_src \in DOMAIN fsStart /\ data_src \notin DOMAIN fsStart) =>
      /\ pc = "failed"
      /\ FailedAt = "copy_data"
      /\ CompleteScripts
      /\ data_dest \notin DOMAIN fs
      /\ Len(stdout) = 1

\* C4 amended: the same, provided neither the reset nor the scripts copy
\* fails and the destination directory does not lie inside source/scripts.
C4_ScriptsThenFail ==
    (/\ Terminal
     /\ scripts_src \in DOMAIN fsStart
     /\ data_src \notin DOMAIN fsStart
     /\ FailedAt \notin {"rmtree", "copy_scripts"}
     /\ ~DestInside(scripts_src)) =>
      /\ pc = "failed"
      /\ FailedAt = "copy_data"
      /\ err = "FileNotFoundError"
      /\ CompleteScripts
      /\ data_dest \notin DOMAIN fs
      /\ Len(stdout) = 1

C4_Witness ==
    /\ pc = "failed"
    /\ FailedAt = "copy_data"
    /\ data_src \notin DOMAIN fsStart
    /\ IsFile(fs, scripts_dest \o <<"sub", "a">>)
    /\ IsDir(fsStart, data_dest)

\* C5: a successful run that follows a successful run on the same source
\* leaves the destination with the contents the first run left.
C5_Idempotent ==
    (pc = "done" /\ runs > 1) => Tree(fs, DEST_DIR) = prevDest

C5_Witness ==
    /\ pc = "done"
    /\ runs > 1
    /\ <<"scripts", "sub", "a">> \in DOMAIN prevDest
    /\ <<"data", "a">> \in DOMAIN prevDest

OpNames(sq) == [i \in 1..Len(sq) |-> sq[i].op]
NotRmTree(o) == o.op # "rmtree"

\* C6: a run succeeds only after the reset and both copies completed; a
\* failed operation is the last thing the run does; no operation is done
\* twice.
C6_TwoOutcomes ==
    /\ pc = "done" =>
         /\ OpNames(SelectSeq(ops, NotRmTree))
              = <<"copy_scripts", "print_scripts", "copy_data", "print_data">>
         /\ \A i \in 1..Len(ops) : ops[i].ok
         /\ DEST_DIR \in DOMAIN fsStart => ops[1].op = "rmtree"
         /\ err = ""
    /\ pc = "failed" => (Len(ops) > 0 /\ ~ops[Len(ops)].ok /\ err # "")
    /\ \A i \in 1..Len(ops) : ~ops[i].ok => (i = Len(ops) /\ pc = "failed")
    /\ \A i \in 1..Len(ops) : \A j \in 1..Len(ops) : ops[i].op = ops[j].op => i = j

C6_Witness ==
    /\ pc = "failed"
    /\ FailedAt = "copy_data"
    /\ err = "Error"
    /\ Len(ops) = 4

\* C7: a successful run has printed the scripts line and then the data line,
\* each naming its destination path; a line is printed only after its copy
\* completed, so there are never more lines than completed copies.
C7_LogLines ==
    /\ pc = "done" =>
         stdout = << [text |-> "Copied scripts to", path |-> cwd \o <<".skill", "scripts">>],
                     [text |-> "Copied data to", path |-> cwd \o <<".skill", "data">>] >>
    /\ Len(stdout) <= Cardinality(OkOps \cap {"copy_scripts", "copy_data"})
    /\ Len(stdout) >= 1 =>
         /\ "copy_scripts" \in OkOps
         /\ stdout[1] = [text |-> "Copied scripts to", path |-> cwd \o <<".skill", "scripts">>]
    /\ Len(stdout) >= 2 =>
         /\ "copy_data" \in OkOps
         /\ stdout[2] = [text |-> "Copied data to", path |-> cwd \o <<".skill", "data">>]

C7_Witness ==
    /\ pc = "copy_data"
    /\ Len(stdout) = 1
    /\ IsDir(fs, scripts_dest)

\* C8: when a copy step starts its target does not exist, whatever the
\* destination held before, and no copy fails on an existing target.
C8_NoCollision ==
    /\ pc = "copy_scripts" => scripts_dest \notin DOMAIN fs
    /\ pc = "copy_data" => data_dest \notin DOMAIN fs
    /\ err # "FileExistsError"

C8_Witness ==
    /\ pc = "copy_data"
    /\ IsDir(fsStart, scripts_dest)
    /\ IsDir(fsStart, data_dest)

\* C9: when the destination existed before the run and the run fails at a
\* copy step, the reset was the first thing done and none of the prior
\* contents of the destination remain.
C9_NoRollback ==
    (pc = "failed" /\ FailedAt \in {"copy_scripts", "copy_data"}
       /\ DEST_DIR \in DOMAIN fsStart) =>
      /\ ops[1] = [op |-> "rmtree", ok |-> TRUE]
      /\ prior = {}

C9_Witness ==
    /\ pc = "failed"
    /\ FailedAt = "copy_scripts"
    /\ err = "FileNotFoundError"
    /\ IsFile(fsStart, DEST_DIR \o <<"old">>)
    /\ DEST_DIR \notin DOMAIN fs

\* C10 as stated: in every state of a run the source directory has the
\* contents it had at the start of the run.
C10_AsStated == Tree(fs, SOURCE_DIR) = Tree(fsStart, SOURCE_DIR)

Outside(f) == Restrict(f, DOMAIN f \ Under(f, DEST_DIR))

\* C10 amended: no step changes anything outside the destination directory;
\* when the destination directory lies outside the source directory, the
\* source directory keeps the contents it had at the start of the run.
C10_SourceUntouched ==
    /\ Outside(fs) = Outside(fsStart)
    /\ ~DestInside(SOURCE_DIR) => Tree(fs, SOURCE_DIR) = Tree(fsStart, SOURCE_DIR)

C10_Witness ==
    /\ pc = "done"
    /\ ~DestInside(SOURCE_DIR)
    /\ IsFile(fs, scripts_src \o <<"sub", "a">>)
    /\ IsFile(fsStart, DEST_DIR \o <<"old">>)
    /\ ~IsFile(fs, DEST_DIR \o <<"old">>)

====
